---- MODULE Spec2Model ----
(***************************************************************************)
(* People Manager (src/main.py): the persons table, the startup migration  *)
(* _migrate, the owner-scoped CRUD handlers with per-user numbering, and   *)
(* the auth_users table with POST /auth/signup.                            *)
(*                                                                         *)
(* A row of persons is a record with the columns of class Person.  SQL     *)
(* NULL is the integer NULL, outside every column's domain; a column the   *)
(* table does not have yet reads as NULL in every row, and the set cols    *)
(* says which of the two migrated columns the table really has.            *)
(***************************************************************************)
EXTENDS Integers, Sequences, FiniteSets, TLC

\* ---------------------------------------------------------------- bounds
\* Successful INSERTs into persons over one behaviour.
MaxCreates == 2
\* Process starts (runs of lifespan) over one behaviour.
MaxRuns == 2

\* ------------------------------------------------------------ value sets
NULL == -1

\* auth_users.id of the accounts that hold a valid token.
Accounts == {1, 2}

\* Their usernames, and the usernames POST /auth/signup is called with.
Username == <<"alice", "bob">>
SignupNames == {"alice", "carol", "dave"}

\* The global ids (rowids) a row of persons may have.
RowIds == 1 .. 3

\* The rows a legacy database may hold at the first start: their global
\* ids, and who owns each once the table has the owner_id column.
LegacyIds == {1, 2}
LegacyOwners ==
    { <<1, 1>>, <<1, 2>>, <<1, NULL>>, <<NULL, 1>>, <<NULL, NULL>> }

MigratedCols == {"owner_id", "user_person_id"}

\* PersonCreate bodies (name is a sequence of characters).
P1 == [name |-> <<"B", "o">>, roll |-> "101", age |-> 20, gender |-> "M"]
\* Bodies of POST /persons and of PUT /persons/{person_id}.
P2 == [name |-> <<"b">>, roll |-> "102", age |-> 22, gender |-> "F"]
CreateBodies == {P1}
PutBodies == {P1, P2}

\* person_id path parameters.
Keys == 1 .. 2

\* ------------------------------------------------------------- helpers
RECURSIVE SetMax(_)
SetMax(S) ==
    IF S = {} THEN NULL
    ELSE LET x == CHOOSE y \in S : TRUE
             m == SetMax(S \ {x})
         IN IF m = NULL \/ x > m THEN x ELSE m

\* The elements of a set of integers in ascending order (ORDER BY).
RECURSIVE Ascending(_)
Ascending(S) ==
    IF S = {} THEN << >>
    ELSE LET lo == CHOOSE y \in S : \A z \in S : y <= z
         IN <<lo>> \o Ascending(S \ {lo})

RECURSIVE Concat(_)
Concat(ss) ==
    IF ss = << >> THEN << >> ELSE Head(ss) \o Concat(Tail(ss))

\* SQL "a = b": never true when either side is NULL.
SqlEq(a, b) == a # NULL /\ b # NULL /\ a = b

\* A row of persons (Person.to_dict has the same keys).
Row(id, upid, p, owner) ==
    [id |-> id, user_person_id |-> upid, name |-> p.name, roll |-> p.roll,
     age |-> p.age, gender |-> p.gender, owner_id |-> owner]

\* WHERE owner_id = :oid
OwnedBy(P, o) == {r \in P : SqlEq(r.owner_id, o)}

\* ------------------------------------------------------------- state
VARIABLES
    cols,      \* which of owner_id, user_person_id the persons table has
    persons,   \* the committed rows of persons
    runs,      \* process starts so far
    sess,      \* per request in flight: what its session has read
    issued,    \* history: per account, the numbers its Creates committed
    removed,   \* history: accounts with a committed Delete
    legacy,    \* history: owner_id values present at the first start
    last,      \* the response (or migration log) of the latest step
    auth_users \* the committed rows of auth_users

vars == <<cols, persons, runs, sess, issued, removed, legacy, last, auth_users>>

Sessions == {1, 2}

Idle == [pc |-> "idle"]

\* A request without a JSON body.
NoBody == << >>

\* What a step answered: the request (operation, caller, path or query
\* parameters, JSON body) and the response (status, record, items); for a
\* run of lifespan, the log of the statements executed.
Outcome(op, caller, key, body, status, data, items, log) ==
    [op |-> op, caller |-> caller, key |-> key, body |-> body,
     status |-> status, data |-> data, items |-> items, log |-> log]

\* ------------------------------------------------------------- Init
\* A legacy table: the rows LegacyIds; with no owner_id column no row has
\* an owner, with it each row has an account's id or NULL.
LegacyTables(withOwner) ==
    { {Row(i, NULL, P1, f[i]) : i \in LegacyIds} :
      f \in IF withOwner THEN LegacyOwners ELSE {<<NULL, NULL>>} }

Init ==
    /\ \E shape \in {"no_owner", "owner_only", "current"} :
          \/ /\ shape = "no_owner"
             /\ cols = {}
             /\ persons \in LegacyTables(FALSE)
          \/ /\ shape = "owner_only"
             /\ cols = {"owner_id"}
             /\ persons \in LegacyTables(TRUE)
          \/ /\ shape = "current"
             /\ cols = MigratedCols
             /\ persons = {}
    /\ runs = 0
    /\ sess = [s \in Sessions |-> Idle]
    /\ issued = [o \in Accounts |-> << >>]
    /\ removed = {}
    /\ legacy = {r.owner_id : r \in persons} \ {NULL}
    /\ last = Outcome("none", NULL, NULL, NoBody, 0, {}, << >>, << >>)
    /\ auth_users = {[id |-> a, username |-> Username[a]] : a \in Accounts}

Quiet == last.op \in {"none", "migrate"}

AllIdle == \A s \in Sessions : sess[s].pc = "idle"

\* ------------------------------------------------------------- _migrate
\* cols = [r[1] for r in rows]; rows = [] when PRAGMA table_info raised.
ObservedCols(pragmaOk) == IF pragmaOk THEN cols ELSE {}

\* The ALTER TABLE statements appended, in order.
Statements(seen) ==
    (IF "owner_id" \notin seen THEN <<"owner_id">> ELSE << >>)
    \o (IF "user_person_id" \notin seen THEN <<"user_person_id">> ELSE << >>)

\* Mutant of BackfillWanted: the backfill runs on every start.
BackfillAlways(seen) == TRUE

\* Whether the backfill block is entered.
BackfillWanted(seen) == "user_person_id" \notin seen

\* Mutant of OwnerPlan: the owner's rows numbered from the highest id down.
OwnerPlanDescending(P, o) ==
    LET ids == Ascending({r.id : r \in OwnedBy(P, o)})
    IN [i \in 1 .. Len(ids) |-> [rid |-> ids[i], num |-> Len(ids) + 1 - i]]

\* The UPDATEs of the backfill in the order they are executed: owners by
\* owner_id, each owner's rows by id, cnt = 1, 2, ...
OwnerPlan(P, o) ==
    LET ids == Ascending({r.id : r \in OwnedBy(P, o)})
    IN [i \in 1 .. Len(ids) |-> [rid |-> ids[i], num |-> i]]

BackfillPlan(P) ==
    LET owners == Ascending({r.owner_id : r \in P} \ {NULL})
    IN Concat([i \in 1 .. Len(owners) |-> OwnerPlan(P, owners[i])])

\* Mutants of BackfillRow: every row numbered 1; the row also handed to
\* account 1.
BackfillRowOne(r, num) == [r EXCEPT !.user_person_id = 1]
BackfillRowOwning(r, num) == [r EXCEPT !.user_person_id = num, !.owner_id = 1]

\* UPDATE persons SET user_person_id = :num WHERE id = :rid
BackfillRow(r, num) == [r EXCEPT !.user_person_id = num]

ApplyUpdate(P, u) ==
    {IF r.id = u.rid THEN BackfillRow(r, u.num) ELSE r : r \in P}

RECURSIVE ApplyUpdates(_, _)
ApplyUpdates(P, us) ==
    IF us = << >> THEN P ELSE ApplyUpdates(ApplyUpdate(P, Head(us)), Tail(us))

\* One run of lifespan: create_all, then _migrate in the same transaction.
\* pragmaOk: PRAGMA table_info succeeded; ok: the ALTERs that do not raise
\* for a reason of their own (an ALTER for a column the table already has
\* always raises); n: the backfill statements executed before one raises
\* (n = the plan's length: none raises).  The log lists the statements
\* executed and whether each succeeded.
MigrateRun(pragmaOk, ok, n) ==
    LET seen    == ObservedCols(pragmaOk)
        stmts   == Statements(seen)
        added   == {stmts[i] : i \in 1 .. Len(stmts)} \cap (ok \ cols)
        cols1   == cols \cup added
        plan    == IF BackfillWanted(seen) /\ "owner_id" \in cols1
                   THEN BackfillPlan(persons) ELSE << >>
        done    == IF "user_person_id" \in cols1 THEN n ELSE 0
        tried   == IF done < Len(plan) THEN done + 1 ELSE done
        applied == SubSeq(plan, 1, done)
    IN /\ n \in 0 .. Len(plan)
       /\ cols' = cols1
       /\ persons' = ApplyUpdates(persons, applied)
       /\ last' = Outcome("migrate", NULL, NULL, NoBody, 0, {}, << >>,
                          << <<"PRAGMA", "table_info", pragmaOk>> >>
                          \o [i \in 1 .. Len(stmts) |->
                                 <<"ALTER", stmts[i], stmts[i] \in added>>]
                          \o (IF BackfillWanted(seen) /\ "owner_id" \notin cols1
                              THEN << <<"SELECT", "owner_id", FALSE>> >> ELSE << >>)
                          \o [i \in 1 .. tried |-> <<"UPDATE", plan[i].rid, i <= done>>])

Migrate ==
    /\ AllIdle /\ Quiet
    /\ runs < MaxRuns
    /\ runs' = runs + 1
    /\ \E pragmaOk \in BOOLEAN, ok \in SUBSET MigratedCols, n \in 0 .. Cardinality(persons) :
          MigrateRun(pragmaOk, ok, n)
    /\ UNCHANGED <<sess, issued, removed, legacy, auth_users>>

\* ------------------------------------------------------ storage helpers
\* Every ORM statement on Person names all mapped columns: it raises
\* (OperationalError) while the table lacks one of them.
SchemaOk == cols = MigratedCols

\* select(func.max(Person.user_person_id)).where(Person.owner_id == uid):
\* MAX skips NULLs and is NULL over no value.
MaxUserPersonId(P, o) ==
    SetMax({r.user_person_id : r \in OwnedBy(P, o)} \ {NULL})

\* Mutants of NextUserPersonId: the maximum over every owner's rows; the
\* count of the owner's rows.
NextOverAllOwners(P, o) ==
    LET m == SetMax({r.user_person_id : r \in P} \ {NULL})
    IN (IF m = NULL THEN 0 ELSE m) + 1
NextByCount(P, o) == Cardinality(OwnedBy(P, o)) + 1

\* next_user_person_id = (max_val or 0) + 1
NextUserPersonId(P, o) ==
    LET max_val == MaxUserPersonId(P, o)
    IN (IF max_val = NULL \/ max_val = 0 THEN 0 ELSE max_val) + 1

\* id is INTEGER PRIMARY KEY without AUTOINCREMENT: SQLite gives a new row
\* the largest rowid in the table plus one, 1 in an empty table.
NextRowId(P) ==
    LET m == SetMax({r.id : r \in P}) IN IF m = NULL THEN 1 ELSE m + 1

\* _lookup_column(): Person always has the attribute user_person_id.
LookupColumn == "user_person_id"

\* Mutant of Lookup: the owner filter left out.
LookupAnyOwner(P, person_id, o) ==
    {r \in P : SqlEq(r.user_person_id, person_id)}

\* select(Person).where(lookup_col == person_id, Person.owner_id == uid)
Lookup(P, person_id, o) ==
    {r \in P : SqlEq(r[LookupColumn], person_id) /\ SqlEq(r.owner_id, o)}

\* ------------------------------------------------------------- List
Lower(c) == IF c = "B" THEN "b" ELSE IF c = "O" THEN "o" ELSE c

LowerStr(s) == [i \in 1 .. Len(s) |-> Lower(s[i])]

RECURSIVE Strip(_)
Strip(s) ==
    IF s = << >> THEN s
    ELSE IF Head(s) = " " THEN Strip(Tail(s))
    ELSE IF s[Len(s)] = " " THEN Strip(SubSeq(s, 1, Len(s) - 1))
    ELSE s

\* SQL LIKE: % matches any run of characters, _ any one character.
RECURSIVE Like(_, _)
Like(str, pat) ==
    IF pat = << >> THEN str = << >>
    ELSE IF Head(pat) = "%"
         THEN Like(str, Tail(pat)) \/ (str # << >> /\ Like(Tail(str), pat))
    ELSE /\ str # << >>
         /\ Head(pat) = "_" \/ Lower(Head(pat)) = Lower(Head(str))
         /\ Like(Tail(str), Tail(pat))

\* func.lower(Person.name).like(f"%{search.strip().lower()}%"); skipped
\* when search is None or empty.
Matches(r, search) ==
    search = << >>
    \/ Like(LowerStr(r.name), <<"%">> \o LowerStr(Strip(search)) \o <<"%">>)

\* ORDER BY user_person_id: ascending, NULLs first, rows with equal keys
\* in whatever order the engine produces.
RECURSIVE Orderings(_)
Orderings(S) ==
    IF S = {} THEN {<< >>}
    ELSE UNION { {<<r>> \o t : t \in Orderings(S \ {r})} :
                 r \in {x \in S : \A y \in S :
                           x[LookupColumn] <= y[LookupColumn]} }

\* .offset(skip).limit(limit)
Slice(seq, skip, limit) ==
    SubSeq(seq, skip + 1, IF skip + limit < Len(seq) THEN skip + limit ELSE Len(seq))

\* Mutant of Selected: the owner filter left out.
SelectedAnyOwner(P, o, search) == {r \in P : Matches(r, search)}

Selected(P, o, search) == {r \in OwnedBy(P, o) : Matches(r, search)}

ListItems(P, o, search, skip, limit) ==
    {Slice(seq, skip, limit) : seq \in Orderings(Selected(P, o, search))}

\* (search, skip, limit) of GET /persons; << >> is no search.
Queries ==
    { << << >>, 0, 2 >>, << << >>, 1, 1 >>, << <<" ", "O">>, 0, 1 >>, << <<"_">>, 1, 2 >> }

Created == Len(issued[1]) + Len(issued[2])

\* The server answers requests once lifespan has run, one at a time: the
\* response of a request is returned before the next step.
Served == runs >= 1 /\ last.op \in {"none", "migrate"}

NoResponse == Outcome("none", NULL, NULL, NoBody, 0, {}, << >>, << >>)

\* The response is sent and the request's session is closed.
Respond ==
    /\ last.op \notin {"none", "migrate"}
    /\ last' = NoResponse
    /\ UNCHANGED <<cols, persons, runs, sess, issued, removed, legacy, auth_users>>

\* ------------------------------------------------------------ handlers
\* Each handler below is one request run from start to response with no
\* step of another request in between.  commitOk: db.commit() did not
\* raise; it raises on a constraint violation and may raise otherwise (the
\* storage failing), and the closed session then leaves nothing behind.

\* POST /persons
InsertPerson(P, next, p, o) == P \cup {Row(NextRowId(P), next, p, o)}

Create(o, p) ==
    /\ Served
    /\ Created < MaxCreates
    /\ NextRowId(persons) \in RowIds
    /\ \E commitOk \in IF SchemaOk THEN BOOLEAN ELSE {FALSE} :
       IF commitOk
       THEN LET next == NextUserPersonId(persons, o)
                new  == Row(NextRowId(persons), next, p, o)
            IN /\ persons' = InsertPerson(persons, next, p, o)
               /\ issued' = [issued EXCEPT ![o] = Append(@, next)]
               /\ last' = Outcome("create", o, NULL, p, 200, {new}, << >>, << >>)
       ELSE /\ UNCHANGED <<persons, issued>>
            /\ last' = Outcome("create", o, NULL, p, 500, {}, << >>, << >>)
    /\ UNCHANGED <<cols, runs, sess, removed, legacy, auth_users>>

\* GET /persons
List(o, search, skip, limit) ==
    /\ Served
    /\ IF SchemaOk
       THEN \E items \in ListItems(persons, o, search, skip, limit) :
               last' = Outcome("list", o, <<search, skip, limit>>, NoBody, 200, {}, items, << >>)
       ELSE last' = Outcome("list", o, <<search, skip, limit>>, NoBody, 500, {}, << >>, << >>)
    /\ UNCHANGED <<cols, persons, runs, sess, issued, removed, legacy, auth_users>>

\* GET /persons/{person_id}
Get(o, k) ==
    /\ Served
    /\ IF ~SchemaOk
       THEN last' = Outcome("get", o, k, NoBody, 500, {}, << >>, << >>)
       ELSE IF Lookup(persons, k, o) = {}
       THEN last' = Outcome("get", o, k, NoBody, 404, {}, << >>, << >>)
       ELSE \E person \in Lookup(persons, k, o) :
               last' = Outcome("get", o, k, NoBody, 200, {person}, << >>, << >>)
    /\ UNCHANGED <<cols, persons, runs, sess, issued, removed, legacy, auth_users>>

\* Mutant of PutFields: the record is also renumbered 1.
PutFieldsRenumbering(person, p) ==
    [person EXCEPT !.name = p.name, !.roll = p.roll, !.age = p.age,
                   !.gender = p.gender, !.user_person_id = 1]

\* PUT /persons/{person_id}: "update safe fields only"
PutFields(person, p) ==
    [person EXCEPT !.name = p.name, !.roll = p.roll, !.age = p.age,
                   !.gender = p.gender]

Put(o, k, p) ==
    /\ Served
    /\ IF ~SchemaOk
       THEN /\ last' = Outcome("put", o, k, p, 500, {}, << >>, << >>)
            /\ UNCHANGED persons
       ELSE IF Lookup(persons, k, o) = {}
       THEN /\ last' = Outcome("put", o, k, p, 404, {}, << >>, << >>)
            /\ UNCHANGED persons
       ELSE \E person \in Lookup(persons, k, o), commitOk \in BOOLEAN :
               IF commitOk
               THEN /\ persons' = (persons \ {person}) \cup {PutFields(person, p)}
                    /\ last' = Outcome("put", o, k, p, 200, {PutFields(person, p)},
                                       << >>, << >>)
               ELSE /\ UNCHANGED persons
                    /\ last' = Outcome("put", o, k, p, 500, {}, << >>, << >>)
    /\ UNCHANGED <<cols, runs, sess, issued, removed, legacy, auth_users>>

\* PATCH /persons/{person_id}
PersonUpdateFields == {"name", "roll", "age", "gender"}

\* patch.dict(exclude_unset=True): the fields of PersonUpdate the body
\* set; keys that are no field of PersonUpdate are dropped on parsing.
PatchDict(raw) == [k \in DOMAIN raw \cap PersonUpdateFields |-> raw[k]]

Protected == {"id", "owner_id", "user_person_id"}

\* setattr(person, k, v) for every key of data
PatchFields(person, data) ==
    LET a == IF "name" \in DOMAIN data THEN [person EXCEPT !.name = data.name] ELSE person
        b == IF "roll" \in DOMAIN data THEN [a EXCEPT !.roll = data.roll] ELSE a
        c == IF "age" \in DOMAIN data THEN [b EXCEPT !.age = data.age] ELSE b
    IN IF "gender" \in DOMAIN data THEN [c EXCEPT !.gender = data.gender] ELSE c

\* Mutant of ViolatesNotNull: the columns accept NULL.
NotNullUnchecked(r) == FALSE

\* name, roll, age and gender are nullable=False: the UPDATE raises.
ViolatesNotNull(r) == r.age = NULL

\* JSON bodies of PATCH: empty; every field of PersonUpdate together with
\* owner_id; a null age; owner_id alone; a key Person does not have.
RawPatches ==
    { << >>,
      [name |-> <<"b">>, roll |-> "102", age |-> 22, gender |-> "F", owner_id |-> 2],
      [age |-> NULL],
      [owner_id |-> 2],
      [nickname |-> "x"] }

\* Mutant of Patch: the payload is checked before the record is looked up.
PatchPayloadFirst(o, k, raw) ==
    /\ Served
    /\ LET data == PatchDict(raw)
       IN IF ~SchemaOk
          THEN /\ last' = Outcome("patch", o, k, raw, 500, {}, << >>, << >>)
               /\ UNCHANGED persons
          ELSE IF DOMAIN data = {} \/ DOMAIN data \cap Protected # {}
          THEN /\ last' = Outcome("patch", o, k, raw, 400, {}, << >>, << >>)
               /\ UNCHANGED persons
          ELSE IF Lookup(persons, k, o) = {}
          THEN /\ last' = Outcome("patch", o, k, raw, 404, {}, << >>, << >>)
               /\ UNCHANGED persons
          ELSE \E person \in Lookup(persons, k, o) :
                  \E commitOk \in IF ViolatesNotNull(PatchFields(person, data))
                                  THEN {FALSE} ELSE BOOLEAN :
                     IF commitOk
                     THEN /\ persons' = (persons \ {person})
                                           \cup {PatchFields(person, data)}
                          /\ last' = Outcome("patch", o, k, raw, 200,
                                             {PatchFields(person, data)}, << >>, << >>)
                     ELSE /\ UNCHANGED persons
                          /\ last' = Outcome("patch", o, k, raw, 500, {}, << >>, << >>)
    /\ UNCHANGED <<cols, runs, sess, issued, removed, legacy, auth_users>>

Patch(o, k, raw) ==
    /\ Served
    /\ IF ~SchemaOk
       THEN /\ last' = Outcome("patch", o, k, raw, 500, {}, << >>, << >>)
            /\ UNCHANGED persons
       ELSE IF Lookup(persons, k, o) = {}
       THEN /\ last' = Outcome("patch", o, k, raw, 404, {}, << >>, << >>)
            /\ UNCHANGED persons
       ELSE \E person \in Lookup(persons, k, o) :
               LET data == PatchDict(raw)
                   new  == PatchFields(person, data)
               IN IF DOMAIN data = {} \/ DOMAIN data \cap Protected # {}
                  THEN /\ last' = Outcome("patch", o, k, raw, 400, {}, << >>, << >>)
                       /\ UNCHANGED persons
                  ELSE \E commitOk \in IF ViolatesNotNull(new) THEN {FALSE} ELSE BOOLEAN :
                          IF commitOk
                          THEN /\ persons' = (persons \ {person}) \cup {new}
                               /\ last' = Outcome("patch", o, k, raw, 200, {new}, << >>, << >>)
                          ELSE /\ UNCHANGED persons
                               /\ last' = Outcome("patch", o, k, raw, 500, {}, << >>, << >>)
    /\ UNCHANGED <<cols, runs, sess, issued, removed, legacy, auth_users>>

\* Mutant of DeletePerson: the owner's higher numbers moved down by one.
DeleteAndCompact(P, person) ==
    { IF SqlEq(r.owner_id, person.owner_id)
         /\ r.user_person_id > person.user_person_id
      THEN [r EXCEPT !.user_person_id = @ - 1] ELSE r : r \in P \ {person} }

\* DELETE /persons/{person_id}
DeletePerson(P, person) == P \ {person}

Delete(o, k) ==
    /\ Served
    /\ IF ~SchemaOk
       THEN /\ last' = Outcome("delete", o, k, NoBody, 500, {}, << >>, << >>)
            /\ UNCHANGED <<persons, removed>>
       ELSE IF Lookup(persons, k, o) = {}
       THEN /\ last' = Outcome("delete", o, k, NoBody, 404, {}, << >>, << >>)
            /\ UNCHANGED <<persons, removed>>
       ELSE \E person \in Lookup(persons, k, o), commitOk \in BOOLEAN :
               IF commitOk
               THEN /\ persons' = DeletePerson(persons, person)
                    /\ removed' = removed \cup {o}
                    /\ last' = Outcome("delete", o, k, NoBody, 200, {person}, << >>, << >>)
               ELSE /\ UNCHANGED <<persons, removed>>
                    /\ last' = Outcome("delete", o, k, NoBody, 500, {}, << >>, << >>)
    /\ UNCHANGED <<cols, runs, sess, issued, legacy, auth_users>>

\* ------------------------------------------------------------- Spec
\* Requests served one at a time, the process restarted at any point.
Next ==
    \/ Migrate
    \/ Respond
    \/ \E o \in Accounts, p \in CreateBodies : Create(o, p)
    \/ \E o \in Accounts, q \in Queries : List(o, q[1], q[2], q[3])
    \/ \E o \in Accounts, k \in Keys : Get(o, k)
    \/ \E o \in Accounts, k \in Keys, p \in PutBodies : Put(o, k, p)
    \/ \E o \in Accounts, k \in Keys, raw \in RawPatches : Patch(o, k, raw)
    \/ \E o \in Accounts, k \in Keys : Delete(o, k)

Spec == Init /\ [][Next]_vars

\* ------------------------------------------ concurrent POST /persons
\* create_person awaits twice: db.execute (the SELECT max) and db.commit
\* (the INSERT and COMMIT).  The SELECT holds no lock once it has returned,
\* so steps of other requests run between the two.
CreateRead(s, o, p) ==
    /\ Served
    /\ sess[s].pc = "idle"
    /\ SchemaOk
    /\ sess' = [sess EXCEPT ![s] =
                  [pc |-> "create", caller |-> o, p |-> p,
                   next |-> NextUserPersonId(persons, o)]]
    /\ UNCHANGED <<cols, persons, runs, issued, removed, legacy, last, auth_users>>

CreateCommit(s, commitOk) ==
    /\ Served
    /\ sess[s].pc = "create"
    /\ Created < MaxCreates
    /\ NextRowId(persons) \in RowIds
    /\ LET o   == sess[s].caller
           new == Row(NextRowId(persons), sess[s].next, sess[s].p, o)
       IN IF commitOk
          THEN /\ persons' = InsertPerson(persons, sess[s].next, sess[s].p, o)
               /\ issued' = [issued EXCEPT ![o] = Append(@, sess[s].next)]
               /\ last' = Outcome("create", o, NULL, sess[s].p, 200, {new}, << >>, << >>)
          ELSE /\ UNCHANGED <<persons, issued>>
               /\ last' = Outcome("create", o, NULL, sess[s].p, 500, {}, << >>, << >>)
    /\ sess' = [sess EXCEPT ![s] = Idle]
    /\ UNCHANGED <<cols, runs, removed, legacy, auth_users>>

NextConcCreate ==
    \/ Migrate
    \/ Respond
    \/ \E s \in Sessions, o \in Accounts, p \in CreateBodies : CreateRead(s, o, p)
    \/ \E s \in Sessions, commitOk \in BOOLEAN : CreateCommit(s, commitOk)
    \/ \E o \in Accounts, k \in Keys : Delete(o, k)

SpecConcCreate == Init /\ [][NextConcCreate]_vars

\* ------------------------------------------------- POST /auth/signup
\* signup awaits twice: db.execute (the SELECT by username) and db.commit
\* (the INSERT and COMMIT); steps of other requests run between the two.
\* auth_users.username is unique=True: the INSERT of a username the table
\* holds raises IntegrityError, which signup does not catch.

\* select(AuthUser).where(AuthUser.username == auth.username)
Existing(U, username) == {a \in U : a.username = username}

\* id is INTEGER PRIMARY KEY: the largest id in the table plus one.
NextAuthId(U) ==
    LET m == SetMax({a.id : a \in U}) IN IF m = NULL THEN 1 ELSE m + 1

\* INSERT INTO auth_users: whether it succeeds, and the table after it.
InsertAuthUser(U, username) ==
    IF Existing(U, username) # {}
    THEN <<FALSE, U>>
    ELSE <<TRUE, U \cup {[id |-> NextAuthId(U), username |-> username]}>>

\* Up to the first await of db.commit(): the SELECT, the 400 for a
\* username found, get_password_hash (a 500 when hashing raises).
SignupRead(s, username, hashOk) ==
    /\ Served
    /\ sess[s].pc = "idle"
    /\ IF Existing(auth_users, username) # {}
       THEN /\ last' = Outcome("signup", NULL, NULL, [username |-> username],
                               400, {}, << >>, << >>)
            /\ UNCHANGED sess
       ELSE IF ~hashOk
       THEN /\ last' = Outcome("signup", NULL, NULL, [username |-> username],
                               500, {}, << >>, << >>)
            /\ UNCHANGED sess
       ELSE /\ sess' = [sess EXCEPT ![s] = [pc |-> "signup", username |-> username]]
            /\ UNCHANGED last
    /\ UNCHANGED <<cols, persons, runs, issued, removed, legacy, auth_users>>

\* db.commit(), db.refresh(new) and the response; an exception of the
\* commit reaches generic_exception_handler.
SignupCommit(s, commitOk) ==
    /\ Served
    /\ sess[s].pc = "signup"
    /\ LET username == sess[s].username
           ins == InsertAuthUser(auth_users, username)
       IN IF commitOk /\ ins[1]
          THEN /\ auth_users' = ins[2]
               /\ last' = Outcome("signup", NULL, NULL, [username |-> username],
                                  200, {}, << >>, << >>)
          ELSE /\ UNCHANGED auth_users
               /\ last' = Outcome("signup", NULL, NULL, [username |-> username],
                                  500, {}, << >>, << >>)
    /\ sess' = [sess EXCEPT ![s] = Idle]
    /\ UNCHANGED <<cols, persons, runs, issued, removed, legacy>>

NextSignup ==
    \/ Migrate
    \/ Respond
    \/ \E s \in Sessions, username \in SignupNames, hashOk \in BOOLEAN :
          SignupRead(s, username, hashOk)
    \/ \E s \in Sessions, commitOk \in BOOLEAN : SignupCommit(s, commitOk)

SpecSignup == Init /\ [][NextSignup]_vars

\* ------------------------------- concurrent PUT and PATCH /persons/{id}
\* put_person and patch_person await twice: db.execute (the SELECT that
\* loads the record) and db.commit (the flush and COMMIT), then refresh.
\* The session keeps the loaded record; the flush writes, by primary key,
\* the attributes whose assigned value differs from the loaded one, and
\* no UPDATE at all when none differs.

Columns == {"id", "user_person_id", "name", "roll", "age", "gender", "owner_id"}

\* Bodies of the concurrent PATCH requests.
ConcPatches == {[age |-> 22], [age |-> NULL]}

\* UPDATE persons SET <attributes with a net change> WHERE id = :id
Flush(P, loaded, assigned) ==
    LET changed == {c \in PersonUpdateFields : assigned[c] # loaded[c]}
    IN {IF r.id = loaded.id
        THEN [c \in Columns |-> IF c \in changed THEN assigned[c] ELSE r[c]]
        ELSE r : r \in P}

PutRead(s, o, k, p) ==
    /\ Served
    /\ sess[s].pc = "idle"
    /\ SchemaOk
    /\ IF Lookup(persons, k, o) = {}
       THEN /\ last' = Outcome("put", o, k, p, 404, {}, << >>, << >>)
            /\ UNCHANGED sess
       ELSE /\ \E person \in Lookup(persons, k, o) :
                 sess' = [sess EXCEPT ![s] =
                            [pc |-> "put", caller |-> o, key |-> k, body |-> p,
                             written |-> PersonUpdateFields, loaded |-> person,
                             assigned |-> PutFields(person, p)]]
            /\ UNCHANGED last
    /\ UNCHANGED <<cols, persons, runs, issued, removed, legacy, auth_users>>

PatchRead(s, o, k, raw) ==
    /\ Served
    /\ sess[s].pc = "idle"
    /\ SchemaOk
    /\ LET data == PatchDict(raw)
       IN IF Lookup(persons, k, o) = {}
          THEN /\ last' = Outcome("patch", o, k, raw, 404, {}, << >>, << >>)
               /\ UNCHANGED sess
          ELSE IF DOMAIN data = {} \/ DOMAIN data \cap Protected # {}
          THEN /\ last' = Outcome("patch", o, k, raw, 400, {}, << >>, << >>)
               /\ UNCHANGED sess
          ELSE /\ \E person \in Lookup(persons, k, o) :
                    sess' = [sess EXCEPT ![s] =
                               [pc |-> "patch", caller |-> o, key |-> k, body |-> raw,
                                written |-> DOMAIN data, loaded |-> person,
                                assigned |-> PatchFields(person, data)]]
               /\ UNCHANGED last
    /\ UNCHANGED <<cols, persons, runs, issued, removed, legacy, auth_users>>

\* db.commit() and db.refresh(person) of either handler, and the response.
UpdateCommit(s, commitOk) ==
    /\ Served
    /\ sess[s].pc \in {"put", "patch"}
    /\ LET q   == sess[s]
           new == Flush(persons, q.loaded, q.assigned)
       IN IF commitOk /\ ~ ViolatesNotNull(q.assigned)
          THEN /\ persons' = new
               /\ last' = Outcome(q.pc, q.caller, q.key, q.body, 200,
                                  {r \in new : r.id = q.loaded.id}, << >>, << >>)
          ELSE /\ UNCHANGED persons
               /\ last' = Outcome(q.pc, q.caller, q.key, q.body, 500, {}, << >>, << >>)
    /\ sess' = [sess EXCEPT ![s] = Idle]
    /\ UNCHANGED <<cols, runs, issued, removed, legacy, auth_users>>

NextConcUpdate ==
    \/ Migrate
    \/ Respond
    \/ \E s \in Sessions, o \in Accounts, k \in Keys, p \in PutBodies : PutRead(s, o, k, p)
    \/ \E s \in Sessions, o \in Accounts, k \in Keys, raw \in ConcPatches :
          PatchRead(s, o, k, raw)
    \/ \E s \in Sessions, commitOk \in BOOLEAN : UpdateCommit(s, commitOk)

SpecConcUpdate == Init /\ [][NextConcUpdate]_vars

\* =============================================================== claims
Numbered(o) == {r \in OwnedBy(persons, o) : r.user_person_id # NULL}

\* No two stored rows of one owner carry the same number.
NoDuplicateNumbers ==
    \A r1, r2 \in persons :
        SqlEq(r1.owner_id, r2.owner_id)
        /\ SqlEq(r1.user_person_id, r2.user_person_id) => r1 = r2

StrictlyIncreasing(seq) ==
    \A i, j \in 1 .. Len(seq) : i < j => seq[i] < seq[j]

\* A step that answers a request of the given kind.
Answered(op) == last'.op = op /\ last # last'

\* C1: when Creates of one owner run concurrently (each reads the owner's
\* maximum, then inserts and commits, interleaved at those steps), a Create
\* never commits a record whose number a stored record of the same owner
\* already has.
C1_ConcurrentCreatesDistinct ==
    [][ (Answered("create") /\ last'.status = 200) =>
          \A new \in last'.data : \A r \in persons :
              r.owner_id = new.owner_id
                  => r.user_person_id # new.user_person_id ]_vars

\* C2: over serialized Creates and Deletes of an owner, the numbers issued
\* to the owner are strictly increasing in creation order: no number is
\* issued twice, also not after its record was deleted.
C2_IssuedNeverReused == \A o \in Accounts : StrictlyIncreasing(issued[o])

\* C3: an owner that started with no records and has deleted nothing was
\* issued exactly 1, 2, ..., N by its N successful serialized Creates, in
\* call order, whatever the other owners did in between.
C3_IssuedOneToN ==
    \A o \in Accounts :
        (o \notin legacy /\ o \notin removed)
            => issued[o] = [i \in 1 .. Len(issued[o]) |-> i]

C3_Witness ==
    \E o \in Accounts :
        /\ o \notin legacy /\ o \notin removed
        /\ Len(issued[o]) >= 2
        /\ \E other \in Accounts \ {o} : other \in removed

\* C4: a serialized successful Create by owner O adds exactly one row; its
\* owner is O and its number is one more than the largest number among
\* O's stored rows, or 1 when O has none: a gap below the maximum is never
\* filled.
C4_CreateTakesMaxPlusOne ==
    [][ (Answered("create") /\ last'.status = 200) =>
          LET o == last'.caller
              S == {r.user_person_id : r \in Numbered(o)}
          IN \E new \in persons' \ persons :
                /\ persons' = persons \cup {new}
                /\ last'.data = {new}
                /\ new.owner_id = o
                /\ \A n \in S : n < new.user_person_id
                /\ IF S = {} THEN new.user_person_id = 1
                   ELSE new.user_person_id - 1 \in S ]_vars

\* Records 2 and 3 with 1 deleted: the Create took 3, not 1.
C4_Witness ==
    /\ last.op = "create" /\ last.status = 200
    /\ \E new \in last.data :
          /\ new.user_person_id = 3
          /\ new \in persons
          /\ last.caller \in removed
          /\ ~ \E r \in Numbered(last.caller) : r.user_person_id = 1

\* C5: after one startup run of the migration followed by any serialized
\* Creates, Replaces, PartialUpdates and Deletes, no two stored rows of one
\* owner have the same non-null number.
C5_NoDuplicateAfterUpgrade == runs <= 1 => NoDuplicateNumbers

C5_Witness ==
    /\ runs = 1
    /\ removed # {}
    /\ \E o \in legacy : Cardinality(Numbered(o)) >= 2 /\ issued[o] # << >>
    /\ \E r \in persons : r.name = <<"b">>

\* C6: Delete(k) by owner O removes exactly one row, a row of O numbered k,
\* and returns it as it was; every other row is unchanged.  When O has no
\* row numbered k the answer is 404 and the table is unchanged.
C6_DeleteFrame ==
    [][ Answered("delete") =>
          LET o == last'.caller
              k == last'.key
              mine == {r \in persons : r.owner_id = o /\ r.user_person_id = k}
          IN /\ last'.status = 200 =>
                  \E person \in mine :
                     /\ persons' = persons \ {person}
                     /\ last'.data = {person}
             /\ last'.status # 200 => persons' = persons
             /\ (SchemaOk /\ mine = {}) => last'.status = 404
             /\ last'.status = 404 => mine = {} ]_vars

\* A Delete that left a higher-numbered row of the same owner behind.
C6_Witness ==
    /\ last.op = "delete" /\ last.status = 200
    /\ \E r \in Numbered(last.caller) : r.user_person_id > last.key
    /\ \E r \in persons : r.owner_id # last.caller

\* C7: every record List returns is owned by the caller, for every caller
\* and query.
C7_ListOnlyOwn ==
    last.op = "list" =>
        \A i \in 1 .. Len(last.items) : last.items[i].owner_id = last.caller

\* A non-empty List answer while another account and nobody own rows too.
C7_Witness ==
    /\ last.op = "list" /\ Len(last.items) >= 1
    /\ \E r \in persons : r.owner_id \in Accounts \ {last.caller}
    /\ \E r \in persons : r.owner_id = NULL

OwnerScoped == {"get", "put", "patch", "delete"}

\* C8: Get, Replace, PartialUpdate and Delete by owner A with number k
\* return and change only a row owned by A and numbered k; rows of other
\* owners and ownerless rows are never returned or changed, and when A has
\* no row numbered k the answer is 404 and the table is unchanged.
C8_OwnerScoped ==
    [][ (last'.op \in OwnerScoped /\ last # last') =>
          LET a == last'.caller
              k == last'.key
              mine == {r \in persons : r.owner_id = a /\ r.user_person_id = k}
          IN /\ \A r \in persons \ persons' : r \in mine
             /\ \A r \in persons' \ persons : r.owner_id = a /\ r.user_person_id = k
             /\ \A r \in last'.data : r.owner_id = a /\ r.user_person_id = k
             /\ (SchemaOk /\ mine = {}) =>
                    last'.status = 404 /\ persons' = persons ]_vars

\* Account A gets 404 for k while another account has a row numbered k and
\* an ownerless row has global id k.
C8_Witness ==
    /\ last.op \in OwnerScoped /\ last.status = 404
    /\ \E r \in persons :
          r.owner_id \in Accounts \ {last.caller} /\ r.user_person_id = last.key
    /\ \E r \in persons : r.owner_id = NULL /\ r.id = last.key

LogOk(log, kinds) == \A i \in 1 .. Len(log) : log[i][1] \in kinds => log[i][3]

C10_OwnerUntouched ==
    [][ runs' = runs + 1 =>
          /\ {r.id : r \in persons'} = {r.id : r \in persons}
          /\ \A r \in persons : \E r2 \in persons' :
                r2.id = r.id /\ r2.owner_id = r.owner_id ]_vars

\* A run with a failed statement that numbered a row of account 2 and left
\* an ownerless row.
C10_Witness ==
    /\ last.op = "migrate"
    /\ ~ LogOk(last.log, {"PRAGMA", "ALTER", "SELECT", "UPDATE"})
    /\ \E i \in 1 .. Len(last.log) : last.log[i][1] = "UPDATE" /\ last.log[i][3]
    /\ \E r \in persons : r.owner_id = 2 /\ r.user_person_id # NULL

StatementKinds == {"PRAGMA", "ALTER", "SELECT", "UPDATE"}

\* C11: a run of the migration on a table without the user_person_id
\* column whose statements all succeed leaves every present owner's rows
\* numbered 1, 2, ..., n in ascending order of global id, and every row
\* without an owner without a number.
C11_BackfillNumbersByOwner ==
    [][ ( /\ runs' = runs + 1
          /\ "user_person_id" \notin cols
          /\ LogOk(last'.log, StatementKinds) )
        => /\ "user_person_id" \in cols'
           /\ \A o \in {r.owner_id : r \in persons'} \ {NULL} :
                 LET ids == Ascending({r.id : r \in {x \in persons' : x.owner_id = o}})
                 IN \A i \in 1 .. Len(ids) :
                       \E r \in persons' : r.id = ids[i] /\ r.user_person_id = i
           /\ \A r \in persons' : r.owner_id = NULL => r.user_person_id = NULL ]_vars

\* A run that added the column and numbered the two rows of one owner 1
\* and 2 by global id.
C11_Witness ==
    /\ last.op = "migrate"
    /\ LogOk(last.log, StatementKinds)
    /\ \E i \in 1 .. Len(last.log) : last.log[i] = <<"ALTER", "user_person_id", TRUE>>
    /\ \E r1, r2 \in persons :
          /\ r1.owner_id = r2.owner_id /\ r1.owner_id # NULL
          /\ r1.id < r2.id
          /\ r1.user_person_id = 1 /\ r2.user_person_id = 2

\* The caller's rows numbered key, before the step that answers.
Addressed == {r \in persons : r.owner_id = last'.caller /\ r.user_person_id = last'.key}

\* C12: PartialUpdate on an existing owned record answers 400 and leaves
\* the table unchanged when the payload is empty, names only unrecognized
\* fields, or names a protected field (id, owner_id, user_person_id); a
\* successful PartialUpdate changes only the supplied recognized fields of
\* that record.  (Answers to a failing storage, status 500, set aside.)
C12_PatchRejectsInvalidPayload ==
    [][ (Answered("patch") /\ last'.status # 500 /\ Addressed # {}) =>
          LET named == DOMAIN last'.body
          IN /\ (named \cap PersonUpdateFields = {} \/ named \cap Protected # {})
                   => last'.status = 400 /\ persons' = persons
             /\ last'.status = 200 =>
                   \E person \in Addressed, new \in persons' :
                      /\ persons' = (persons \ {person}) \cup {new}
                      /\ \A c \in Columns :
                            new[c] = IF c \in named \cap PersonUpdateFields
                                     THEN last'.body[c] ELSE person[c] ]_vars

\* C13: a successful Replace(k, fields) by owner O sets name, roll, age and
\* gender of O's record numbered k to the supplied values and leaves its
\* id, owner_id and user_person_id and every other record unchanged; and no
\* request of any kind changes the owner_id or user_person_id of a stored
\* record.
C13_ReplaceFrame ==
    [][ /\ (Answered("put") /\ last'.status = 200) =>
              \E person \in Addressed :
                 LET new == Row(person.id, person.user_person_id, last'.body,
                                person.owner_id)
                 IN /\ persons' = (persons \ {person}) \cup {new}
                    /\ last'.data = {new}
        /\ runs' = runs =>
              \A r \in persons, r2 \in persons' :
                 r.id = r2.id => /\ r2.owner_id = r.owner_id
                                 /\ r2.user_person_id = r.user_person_id ]_vars

\* A Replace that rewrote all four fields of the caller's record 2 while
\* the caller's other record kept its fields.
C13_Witness ==
    /\ last.op = "put" /\ last.status = 200 /\ last.body = P2 /\ last.key = 2
    /\ \E new \in last.data, other \in persons :
          /\ new \in persons
          /\ new.user_person_id = 2 /\ new.roll = "102" /\ new.gender = "F"
          /\ other.owner_id = new.owner_id /\ other.id # new.id
          /\ other.roll = "101"

\* Every arrangement of the rows of S in a sequence.
RECURSIVE Arrangements(_)
Arrangements(S) ==
    IF S = {} THEN {<< >>}
    ELSE UNION { {<<r>> \o t : t \in Arrangements(S \ {r})} : r \in S }

\* Numbered rows by number ascending; rows without a number among
\* themselves by global id ascending.
NumberThenId(seq) ==
    \A i, j \in 1 .. Len(seq) :
        i < j =>
           /\ (seq[i].user_person_id # NULL /\ seq[j].user_person_id # NULL)
                 => seq[i].user_person_id <= seq[j].user_person_id
           /\ (seq[i].user_person_id = NULL /\ seq[j].user_person_id = NULL)
                 => seq[i].id < seq[j].id

\* C14: List(offset, limit) answers the elements at positions offset ..
\* offset+limit-1 of the caller's (name-filtered) records ordered by
\* user_person_id ascending, records without a number ordered among
\* themselves by id ascending.
C14_ListOrderedAndSliced ==
    (last.op = "list" /\ last.status = 200) =>
        \E seq \in Arrangements(Selected(persons, last.caller, last.key[1])) :
            /\ NumberThenId(seq)
            /\ last.items = Slice(seq, last.key[2], last.key[3])

UniqueUsernames(U) == \A a, b \in U : a.username = b.username => a = b

\* C15: no two accounts ever have the same username; a signup whose
\* username is taken when it is answered fails with 400 and leaves
\* auth_users unchanged, also when two signups for one new username run
\* concurrently: at most one creates the account (200, one row added) and
\* the other answers 400.
C15_SignupUniqueUsernames ==
    [][ /\ UniqueUsernames(auth_users')
        /\ Answered("signup") =>
              LET username == last'.body.username
              IN /\ Existing(auth_users, username) # {}
                       => last'.status = 400 /\ auth_users' = auth_users
                 /\ last'.status = 200
                       => /\ Existing(auth_users, username) = {}
                          /\ \E a \in auth_users' :
                                /\ a.username = username
                                /\ auth_users' = auth_users \cup {a} ]_vars

\* C16: a run of the migration on a table that already has the
\* user_person_id column, whatever statements fail in it, changes no
\* record's number (gaps left by Deletes are not compacted by a restart).
C16_NumbersOnlyWhenColumnAdded ==
    [][ (runs' = runs + 1 /\ "user_person_id" \in cols) =>
          \A r \in persons : \E r2 \in persons' :
             r2.id = r.id /\ r2.user_person_id = r.user_person_id ]_vars

Failed(log, kinds) == \E i \in 1 .. Len(log) : log[i][1] \in kinds /\ ~ log[i][3]

\* C17: a run of the migration always completes; after a failed statement
\* the remaining steps are still attempted (every ALTER TABLE for a column
\* not observed is executed), and a failed step has no effect: a failed
\* ALTER TABLE leaves the columns as they were, and a backfill in which a
\* statement fails leaves no record with a number it did not have.
C17_FailedStepHasNoEffect ==
    [][ runs' = runs + 1 =>
          LET log  == last'.log
              seen == IF log[1][3] THEN cols ELSE {}
          IN /\ last'.op = "migrate"
             /\ \A c \in MigratedCols \ seen :
                   \E i \in 1 .. Len(log) : log[i][1] = "ALTER" /\ log[i][2] = c
             /\ \A i \in 1 .. Len(log) :
                   (log[i][1] = "ALTER" /\ ~ log[i][3])
                      => (log[i][2] \in cols' <=> log[i][2] \in cols)
             /\ Failed(log, {"SELECT", "UPDATE"}) =>
                   \A r \in persons : \E r2 \in persons' :
                      r2.id = r.id /\ r2.user_person_id = r.user_person_id ]_vars

Mutating == {"create", "put", "patch", "delete"}

\* C18: a Create, Replace, PartialUpdate or Delete whose commit fails
\* answers 500 and leaves the table exactly as it was; in particular a
\* PartialUpdate of an owned record that sets a NOT NULL column to null
\* answers 500 and changes nothing.
C18_CommitFailureLeavesStore ==
    [][ (last'.op \in Mutating /\ last # last') =>
          /\ last'.status = 500 => persons' = persons /\ cols' = cols
          /\ ( /\ last'.op = "patch" /\ SchemaOk /\ Addressed # {}
               /\ "age" \in DOMAIN last'.body /\ last'.body.age = NULL )
                => last'.status = 500 /\ persons' = persons ]_vars

\* A PATCH with a null age on a record the caller owns, answered 500 with
\* the record's age still set.
C18_Witness ==
    /\ last.op = "patch" /\ last.status = 500
    /\ last.body = [age |-> NULL]
    /\ \E r \in persons :
          r.owner_id = last.caller /\ r.user_person_id = last.key /\ r.age = 22

\* C19: when Replace and PartialUpdate calls on one record run concurrently
\* (each loads the record, then commits, interleaved at those steps), a
\* call that commits successfully leaves every field it wrote with its own
\* value in the stored record (the last committer wins) and the record's
\* id, owner_id and user_person_id unchanged.
C19_LastWriterWins ==
    [][ \A s \in Sessions :
          ( /\ sess[s].pc \in {"put", "patch"} /\ sess'[s].pc = "idle"
            /\ last'.status = 200 )
          => \E r \in persons' :
                /\ r.id = sess[s].loaded.id
                /\ r.owner_id = sess[s].loaded.owner_id
                /\ r.user_person_id = sess[s].loaded.user_person_id
                /\ \A c \in sess[s].written : r[c] = sess[s].assigned[c] ]_vars

\* C20: PartialUpdate looks the record up before it looks at the payload:
\* when the caller owns no record numbered k the answer is 404 for every
\* payload (empty, naming a protected field, or valid) and nothing
\* changes; 400 is answered only when the caller owns such a record.
C20_OwnershipBeforePayload ==
    [][ (Answered("patch") /\ SchemaOk) =>
          /\ Addressed = {} => last'.status = 404 /\ persons' = persons
          /\ last'.status = 400 => Addressed # {} ]_vars

\* A PATCH naming only owner_id answered 404: the number belongs to a
\* record of the other account.
C20_Witness ==
    /\ last.op = "patch" /\ last.status = 404
    /\ last.body = [owner_id |-> 2]
    /\ ~ \E r \in persons : r.owner_id = last.caller /\ r.user_person_id = last.key
    /\ \E r \in persons :
          r.owner_id \in Accounts \ {last.caller} /\ r.user_person_id = last.key
====
